---------------------------- MODULE Spec2Model ----------------------------
(***************************************************************************)
(* Best-of-N sampler of swift/experimental/sampling/sampling.py:           *)
(* SwiftSampling.run, run_sampling, _get_dataset, do_sample and            *)
(* _get_reward; the evaluation driver of swift/llm/eval.py:                *)
(* EvalModel.call_openai_batched, get_model_type and eval_opencompass;     *)
(* and get_model_tokenizer of examples/pytorch/llm/src/utils/model.py.     *)
(*                                                                         *)
(* Conventions.                                                            *)
(*  - A Python list is a sequence; Python's s[k] (k >= 0) is At(s, k).     *)
(*    Slot numbers (sorted_indices, neg_index, pos_indexes) keep Python's  *)
(*    zero-based values.                                                   *)
(*  - A raw score is an integer number of 1/Unit (tenths): 8 is 0.8.       *)
(*  - A normalized array is [num, den]: element k has the value            *)
(*    num[k] * (EpsInv \div Unit) / den, one denominator for the array.    *)
(*  - Texts are opaque to the sampler: the engine's response at position k *)
(*    of a call carries the text GenText(k).                               *)
(***************************************************************************)
EXTENDS Integers, Sequences, FiniteSets, TLC

VARIABLES
    pc,               \* position of the main process
    outcome,          \* "none", "returned" or the exception that ended run()
    dirExists,        \* the output directory exists
    iter_file,        \* content of <prefix>_sampling.jsonl, or NoFile
    file_before,      \* iter_file when the current run() was entered
    engine_calls,     \* infer calls (engine and reward models) of the current run()
    argv,             \* the configuration every sampler process is built from
    args,             \* self.args
    orm_model,        \* raw scores self.orm_model may return
    prm_model,        \* raw scores self.prm_model may return
    dev_count,        \* torch.cuda.device_count()
    nproc,            \* NPROC_PER_NODE
    cur_proc,         \* module global, from DATA_RANGE
    total_proc,       \* module global, from DATA_RANGE
    sampling_dataset, \* what load_dataset returns
    handlers,         \* run(): the processes started
    launch,           \* run(): the arguments evaluated for the process being built
    dataset,          \* run_sampling: the shard
    dumped_ds,        \* run_sampling
    index,            \* run_sampling: _index
    data,             \* do_sample: the sub-batch
    batch_decoded_all,\* do_sample
    i,                \* do_sample: index of the scoring loop
    generated,        \* do_sample
    rec,              \* do_sample: the locals of one iteration of the scoring loop
    cb_pc,            \* call_openai_batched: position of the coroutine
    prompts,          \* call_openai_batched: the argument
    eval_is_chat_model, \* args.eval_is_chat_model
    tasks,            \* call_openai_batched: idx of the requests not yet completed
    arrival,          \* call_openai_batched: idx of the requests in completion order
    response_list,    \* call_openai_batched
    ev_pc,            \* eval_opencompass: position
    ev_outcome,       \* eval_opencompass: "none", "returned" or the exception raised
    eval_url,         \* args.eval_url
    template_type,    \* args.template_type
    deploy_timeout,   \* args.deploy_timeout
    process,          \* eval_opencompass: None, or the state of the deploy process
    cnt,              \* get_model_type
    attempt_log,      \* get_model_type: outcome of each client.models.list() so far
    slept,            \* get_model_type: seconds spent in time.sleep
    task_cfg,         \* eval_opencompass: the model entry of task_cfg, or NoCfg
    rank_pc,          \* get_model_tokenizer: position of each rank
    is_dist,          \* is_dist()
    local_world_size, \* ranks per node
    barrier_entries,  \* number of dist.barrier() calls each rank has made
    path_exists,      \* os.path.exists(model_id)
    hub_reachable,    \* snapshot_download can fetch the model
    cache,            \* per node: the snapshot is in the local cache
    model_dir         \* get_model_tokenizer: model_dir of each rank, or None

sampling_vars == <<pc, outcome, dirExists, iter_file, file_before, engine_calls,
                   argv, args, orm_model, prm_model, dev_count, nproc, cur_proc,
                   total_proc, sampling_dataset, handlers, launch, dataset,
                   dumped_ds, index, data, batch_decoded_all, i, generated, rec>>

batched_vars == <<cb_pc, prompts, eval_is_chat_model, tasks, arrival, response_list>>

opencompass_vars == <<ev_pc, ev_outcome, eval_url, template_type, deploy_timeout,
                      process, cnt, attempt_log, slept, task_cfg>>

tokenizer_vars == <<rank_pc, is_dist, local_world_size, barrier_entries,
                    path_exists, hub_reachable, cache, model_dir>>

vars == <<sampling_vars, batched_vars, opencompass_vars, tokenizer_vars>>

None == "None"
\* no file at the path
NoFile == [exists |-> FALSE, lines |-> <<>>]
\* the scoring loop is between two iterations
NoRec == [empty |-> TRUE]
\* no process is being built
NoLaunch == [empty |-> TRUE]
\* num_sampling_per_gpu_batches is None
NoCount == 0 - 1
\* args.eval_url is None
NoUrl == [empty |-> TRUE]
\* task_cfg is not built yet
NoCfg == [empty |-> TRUE]

\* call_openai_batched is not running
BatchedIdle ==
    /\ cb_pc = "idle"
    /\ prompts = <<>>
    /\ eval_is_chat_model = None
    /\ tasks = {}
    /\ arrival = <<>>
    /\ response_list = <<>>

\* eval_opencompass is not running
OpenCompassIdle ==
    /\ ev_pc = "idle"
    /\ ev_outcome = "none"
    /\ eval_url = NoUrl
    /\ template_type = None
    /\ deploy_timeout = 0
    /\ process = None
    /\ cnt = 0
    /\ attempt_log = <<>>
    /\ slept = 0
    /\ task_cfg = NoCfg

\* get_model_tokenizer is not running
TokenizerIdle ==
    /\ rank_pc = <<>>
    /\ is_dist = FALSE
    /\ local_world_size = 1
    /\ barrier_entries = <<>>
    /\ path_exists = FALSE
    /\ hub_reachable = FALSE
    /\ cache = <<>>
    /\ model_dir = <<>>

(***************************************************************************)
(* Bounds of the model.                                                    *)
(***************************************************************************)
MaxN == 2        \* num_return_sequences ranges over 1..MaxN
MaxData == 3     \* the dataset has at most MaxData records
MaxShard == 5    \* run_sampling alone is tried on shards of at most MaxShard records
MaxDev == 4      \* at most MaxDev accelerators, and NPROC_PER_NODE <= MaxDev

(***************************************************************************)
(* Program constants.                                                      *)
(***************************************************************************)
Unit == 10          \* raw scores count tenths
EpsInv == 100000    \* 1 / 1e-5
OrmWeight == 10     \* score = prm + 10 * orm

(***************************************************************************)
(* Python helpers.                                                         *)
(***************************************************************************)
At(s, k) == s[k + 1]

Min2(a, b) == IF a <= b THEN a ELSE b

Range(s) == {s[k] : k \in DOMAIN s}

ArrMin(arr) == CHOOSE m \in Range(arr) : \A x \in Range(arr) : m <= x

ArrMax(arr) == CHOOSE m \in Range(arr) : \A x \in Range(arr) : x <= m

\* s[0:n]
Prefix(s, n) == SubSeq(s, 1, Min2(n, Len(s)))

\* messages[-1]['content'] = c
SetLastContent(messages, c) == [messages EXCEPT ![Len(messages)].content = c]

\* int(n * t) for a threshold t = <<numerator, denominator>> >= 0
IntOfProduct(n, t) == (n * t[1]) \div t[2]

(***************************************************************************)
(* _get_reward                                                             *)
(***************************************************************************)
\* normalize without min(1.0, .) in the all-equal case
normalizeUnclamped(arr) ==
    LET min_val == ArrMin(arr)
        max_val == ArrMax(arr)
    IN  IF min_val = max_val
        THEN [num |-> [k \in DOMAIN arr |-> min_val], den |-> EpsInv]
        ELSE [num |-> [k \in DOMAIN arr |-> arr[k] - min_val],
              den |-> (max_val - min_val) * (EpsInv \div Unit) + 1]

\* lines 38-48. The value of element k of the result is
\* num[k] * (EpsInv \div Unit) / den.
normalize(arr) ==
    LET min_val == ArrMin(arr)
        max_val == ArrMax(arr)
    IN  IF min_val = max_val
        THEN [num |-> [k \in DOMAIN arr |->
                         IF min_val = 0 THEN 0 ELSE Min2(Unit, min_val)],
              den |-> EpsInv]
        ELSE [num |-> [k \in DOMAIN arr |-> arr[k] - min_val],
              den |-> (max_val - min_val) * (EpsInv \div Unit) + 1]

get_reward_mask(arr, threshold) ==
    IF threshold = None
    THEN [k \in DOMAIN arr |-> TRUE]
    ELSE [k \in DOMAIN arr |-> arr[k] >= threshold]

get_reward(arr, threshold) ==
    [score |-> normalize(arr), mask |-> get_reward_mask(arr, threshold)]

\* score > 0 for an element of a normalized array
IsPositive(norm, k) == norm.num[k] > 0

(***************************************************************************)
(* do_sample: generation (lines 121-149)                                   *)
(***************************************************************************)
\* "4", "5", "6", ...: one text per position, the first two being the
\* candidates of the specification's end-to-end example
GenText(k) == ToString(k + 4)

\* lines 123-130: the conversation sent to the engine for one row
RequestMessages(row) ==
    LET m0 == row.messages
        m1 == IF args.system = None THEN m0
              ELSE IF m0[1].role = "system"
                   THEN [m0 EXCEPT ![1].content = args.system]
                   ELSE <<[role |-> "system", content |-> args.system]>> \o m0
    IN  IF m1[Len(m1)].role = "assistant" /\ m1[Len(m1)].content = None
        THEN SubSeq(m1, 1, Len(m1) - 1)
        ELSE m1

\* InferRequests with one request per row instead of num_return_sequences
InferRequestsOnePerRow(d) ==
    [k \in 1..Len(d) |->
        [messages |-> RequestMessages(d[k]), row |-> k - 1, copy |-> 0]]

\* lines 121-133: num_return_sequences copies of each row's request, row by row
InferRequests(d) ==
    [k \in 1..(Len(d) * args.num_return_sequences) |->
        [messages |-> RequestMessages(d[((k - 1) \div args.num_return_sequences) + 1]),
         row |-> (k - 1) \div args.num_return_sequences,
         copy |-> (k - 1) % args.num_return_sequences]]

\* line 143: the engine answers request k (zero-based) with the text GenText(k)
EngineInfer(requests) == [k \in DOMAIN requests |-> GenText(k - 1)]

\* DecodeGroup with the group read backwards
DecodeGroupReversed(resp_list, start) ==
    [j \in 1..args.num_return_sequences |->
        At(resp_list, start + args.num_return_sequences - j)]

\* lines 147-148: the group that starts at position start of resp_list
DecodeGroup(resp_list, start) ==
    [j \in 1..args.num_return_sequences |-> At(resp_list, start + j - 1)]

\* lines 144-149: range(0, len(resp_list), num_return_sequences)
DecodeAll(resp_list) ==
    [g \in 1..(Len(resp_list) \div args.num_return_sequences) |->
        DecodeGroup(resp_list, (g - 1) * args.num_return_sequences)]


(***************************************************************************)
(* do_sample: one iteration of the scoring loop (lines 151-189)            *)
(***************************************************************************)
\* lines 152-154: the conversation the reward models score
ScoringMessages(row) ==
    IF row.messages[Len(row.messages)].role /= "assistant"
    THEN Append(row.messages, [role |-> "assistant", content |-> None])
    ELSE row.messages

\* lines 156-165: one request per candidate, then one for the ground truth
ScoringRequests(row, batch_decoded, ground_truth) ==
    [k \in 1..(Len(batch_decoded) + 1) |->
        [messages |-> SetLastContent(ScoringMessages(row),
                                     IF k <= Len(batch_decoded)
                                     THEN batch_decoded[k] ELSE ground_truth),
         ground_truths |-> ground_truth]]

\* line 169: any([score > 0 for score in orm_score])
AnyPositive(orm_score) == \E k \in DOMAIN orm_score.num : IsPositive(orm_score, k)

\* line 182: sum([score > 0 for score in orm_score])
CountPositive(orm_score) ==
    Cardinality({k \in DOMAIN orm_score.num : IsPositive(orm_score, k)})

\* CombinedScore with the weight on the other score: prm_score * 10 + orm_score
CombinedScoreSwapped(prm_score, orm_score) ==
    [k \in DOMAIN prm_score.num |->
        OrmWeight * prm_score.num[k] * orm_score.den + orm_score.num[k] * prm_score.den]

\* line 173: prm_score + orm_score * 10, in units of
\* (EpsInv \div Unit) / (prm_score.den * orm_score.den), the same for every slot
CombinedScore(prm_score, orm_score) ==
    [k \in DOMAIN prm_score.num |->
        prm_score.num[k] * orm_score.den + OrmWeight * orm_score.num[k] * prm_score.den]

IndexOrders(n) ==
    {p \in [1..n -> 0..(n - 1)] : \A a, b \in 1..n : a /= b => p[a] /= p[b]}

\* ArgsortReversed without the reversal: np.argsort(score)
ArgsortAscending(score) ==
    {p \in IndexOrders(Len(score)) :
        \A a, b \in 1..Len(score) : a < b => At(score, p[a]) <= At(score, p[b])}

\* line 174: np.argsort(score)[::-1]; the default sort kind is not stable, so
\* equal scores may come out in any order
ArgsortReversed(score) ==
    {p \in IndexOrders(Len(score)) :
        \A a, b \in 1..Len(score) : a < b => At(score, p[a]) >= At(score, p[b])}

\* line 175
NegIndex(sorted_indices) == At(sorted_indices, 0)

\* line 176
TopIndexes(sorted_indices) == Prefix(sorted_indices, args.n_best_to_keep)

\* line 177
IsKept(mask, k) == At(mask, k)

FilterByMask(indexes, mask) == SelectSeq(indexes, LAMBDA k : IsKept(mask, k))

\* IsEasyQuery without int(): the product is compared as a real number
IsEasyQueryNoTruncation(orm_score) ==
    (CountPositive(orm_score) - 1) * args.easy_query_threshold[2]
        >= args.num_return_sequences * args.easy_query_threshold[1]

\* line 182
IsEasyQuery(orm_score) ==
    CountPositive(orm_score) - 1
        >= IntOfProduct(args.num_return_sequences, args.easy_query_threshold)

\* lines 187-189: the record written for one positive
PairOf(row, positive, negative) ==
    [messages |-> SetLastContent(row.messages, positive),
     rejected_response |-> negative]

\* lines 184-189
PairsOf(row, batch_decoded, pos_indexes, neg_index) ==
    [k \in 1..Len(pos_indexes) |->
        PairOf(row, At(batch_decoded, pos_indexes[k]), At(batch_decoded, neg_index))]

\* The locals of an iteration that got past line 171.
Iteration(row, decoded, ground_truth, orm_raw, prm_raw, sorted_indices) ==
    LET orm == get_reward(orm_raw, None)
        prm == get_reward(prm_raw, None)
        neg_index == NegIndex(sorted_indices)
        pos_indexes == FilterByMask(TopIndexes(sorted_indices), prm.mask)
        batch_decoded == Append(decoded, ground_truth)
        easy == IsEasyQuery(orm.score)
    IN  [infer_requests |-> ScoringRequests(row, decoded, ground_truth),
         orm_raw |-> orm_raw, prm_raw |-> prm_raw,
         orm_score |-> orm.score, prm_score |-> prm.score, mask |-> prm.mask,
         score |-> CombinedScore(prm.score, orm.score),
         sorted_indices |-> sorted_indices,
         neg_index |-> neg_index, pos_indexes |-> pos_indexes,
         batch_decoded |-> batch_decoded,
         raised |-> FALSE,
         skipped |-> easy,
         emitted |-> IF easy THEN <<>>
                     ELSE PairsOf(row, batch_decoded, pos_indexes, neg_index)]

\* The locals of an iteration that stopped at line 171.
RaisedIteration(row, decoded, ground_truth, orm_raw, prm_raw) ==
    [infer_requests |-> ScoringRequests(row, decoded, ground_truth),
     orm_raw |-> orm_raw, prm_raw |-> prm_raw,
     orm_score |-> normalize(orm_raw), prm_score |-> normalize(prm_raw),
     mask |-> get_reward_mask(prm_raw, None),
     score |-> <<>>, sorted_indices |-> <<>>, neg_index |-> NoCount,
     pos_indexes |-> <<>>, batch_decoded |-> decoded,
     raised |-> TRUE, skipped |-> FALSE, emitted |-> <<>>]


(***************************************************************************)
(* do_sample as steps of the main process                                  *)
(***************************************************************************)
run_vars == <<dirExists, iter_file, file_before, argv, args, orm_model,
              prm_model, dev_count, nproc, cur_proc, total_proc,
              sampling_dataset, handlers, launch, dataset>>

\* lines 121-149
DoSampleGenerate ==
    /\ pc = "do_sample"
    /\ batch_decoded_all' = DecodeAll(EngineInfer(InferRequests(data)))
    /\ engine_calls' = engine_calls + 1
    /\ generated' = <<>>
    /\ i' = 0
    /\ rec' = NoRec
    /\ pc' = "score_loop"
    /\ UNCHANGED <<run_vars, outcome, dumped_ds, index, data>>
    /\ UNCHANGED <<batched_vars, opencompass_vars, tokenizer_vars>>

\* lines 152-189, for the row at position i of the sub-batch
DoSampleBody ==
    /\ pc = "score_loop"
    /\ rec = NoRec
    /\ i < Len(batch_decoded_all)
    /\ LET row == At(data, i)
           decoded == At(batch_decoded_all, i)
       IN  \/ \* line 161: data[i]['ground_truth'][i] is out of range
              /\ i >= Len(row.ground_truth)
              /\ outcome' = "IndexError"
              /\ pc' = "exited"
              /\ UNCHANGED <<engine_calls, generated, rec, batch_decoded_all>>
           \/ /\ i < Len(row.ground_truth)
              /\ \E orm_raw \in [DOMAIN ScoringRequests(row, decoded,
                                                           At(row.ground_truth, i))
                                      -> orm_model],
                    prm_raw \in [DOMAIN ScoringRequests(row, decoded,
                                                           At(row.ground_truth, i))
                                      -> prm_model] :
                    /\ engine_calls' = engine_calls + 2
                    /\ IF ~AnyPositive(normalize(orm_raw))
                       THEN \* line 171: a bare raise is a RuntimeError
                            /\ rec' = RaisedIteration(row, decoded,
                                                   At(row.ground_truth, i),
                                                   orm_raw, prm_raw)
                            /\ outcome' = "RuntimeError"
                            /\ pc' = "exited"
                            /\ UNCHANGED <<generated, batch_decoded_all>>
                       ELSE \E sorted_indices \in
                                ArgsortReversed(CombinedScore(normalize(prm_raw),
                                                              normalize(orm_raw))) :
                            /\ rec' = Iteration(row, decoded, At(row.ground_truth, i),
                                                orm_raw, prm_raw, sorted_indices)
                            /\ generated' = generated \o rec'.emitted
                            \* line 178 appends to the list batch_decoded_all holds
                            /\ batch_decoded_all' =
                                   [batch_decoded_all EXCEPT ![i + 1] = rec'.batch_decoded]
                            /\ UNCHANGED <<outcome, pc>>
    /\ UNCHANGED <<run_vars, dumped_ds, index, data, i>>
    /\ UNCHANGED <<batched_vars, opencompass_vars, tokenizer_vars>>

\* line 151: the loop moves on to the next row
DoSampleNext ==
    /\ pc = "score_loop"
    /\ rec /= NoRec
    /\ i' = i + 1
    /\ rec' = NoRec
    /\ UNCHANGED <<run_vars, pc, outcome, engine_calls, dumped_ds, index, data,
                   batch_decoded_all, generated>>
    /\ UNCHANGED <<batched_vars, opencompass_vars, tokenizer_vars>>

\* DoSampleReturn with the pairs written to the output file after each sub-batch
DoSampleReturnFlushing ==
    /\ pc = "score_loop"
    /\ rec = NoRec
    /\ i = Len(batch_decoded_all)
    /\ dumped_ds' = dumped_ds \o generated
    /\ iter_file' = [exists |-> TRUE, lines |-> dumped_ds']
    /\ index' = index + 1
    /\ pc' = "rs_loop"
    /\ UNCHANGED <<dirExists, file_before, argv, args, orm_model, prm_model,
                   dev_count, nproc, cur_proc, total_proc, sampling_dataset,
                   handlers, launch, dataset, outcome, engine_calls, data,
                   batch_decoded_all, i, generated, rec>>
    /\ UNCHANGED <<batched_vars, opencompass_vars, tokenizer_vars>>

\* line 190, and line 209 of the caller
DoSampleReturn ==
    /\ pc = "score_loop"
    /\ rec = NoRec
    /\ i = Len(batch_decoded_all)
    /\ dumped_ds' = dumped_ds \o generated
    /\ index' = index + 1
    /\ pc' = "rs_loop"
    /\ UNCHANGED <<run_vars, outcome, engine_calls, data, batch_decoded_all, i,
                   generated, rec>>
    /\ UNCHANGED <<batched_vars, opencompass_vars, tokenizer_vars>>

(***************************************************************************)
(* _get_dataset (lines 109-118)                                            *)
(***************************************************************************)
\* line 116
PieceLen(dataset_len, total) == dataset_len \div total

\* line 117: range(piece_len * cur_proc, piece_len * (cur_proc + 1))
ShardFirst(dataset_len, cur, total) == PieceLen(dataset_len, total) * cur

ShardEnd(dataset_len, cur, total) == PieceLen(dataset_len, total) * (cur + 1)

\* the zero-based positions the range holds
ShardRange(dataset_len, cur, total) ==
    ShardFirst(dataset_len, cur, total)..(ShardEnd(dataset_len, cur, total) - 1)

\* line 117: select raises when a position is outside the dataset
SelectFails(ds, cur, total) == ShardEnd(Len(ds), cur, total) > Len(ds)

get_dataset(ds, cur, total) ==
    SubSeq(ds, ShardFirst(Len(ds), cur, total) + 1, ShardEnd(Len(ds), cur, total))

(***************************************************************************)
(* run_sampling (lines 192-212)                                            *)
(***************************************************************************)
\* line 195
SkipsRun == iter_file.exists /\ ~args.override_exist_file

\* line 201
TotalIters(ds) == Len(ds) \div args.num_sampling_per_gpu_batch_size

\* AdjustedBatches without the cap at total_iters
AdjustedBatchesUncapped(ds) ==
    IF args.num_sampling_per_gpu_batches = NoCount
    THEN TotalIters(ds)
    ELSE args.num_sampling_per_gpu_batches

\* lines 202-203
AdjustedBatches(ds) ==
    IF \/ args.num_sampling_per_gpu_batches = NoCount
       \/ args.num_sampling_per_gpu_batches > TotalIters(ds)
    THEN TotalIters(ds)
    ELSE args.num_sampling_per_gpu_batches

\* lines 207-208: the key of the subscript is the pair
\* (batches * _index, batches * (_index + 1))
SubscriptKey(idx) ==
    <<args.num_sampling_per_gpu_batches * idx,
      args.num_sampling_per_gpu_batches * (idx + 1)>>

\* dataset[lo, hi]: a key that lists positions selects the rows at exactly
\* those positions, and fails when one of them is outside the dataset
SubscriptFails(ds, key) == \E k \in 1..Len(key) : key[k] >= Len(ds)

Subscript(ds, key) == [k \in 1..Len(key) |-> At(ds, key[k])]

\* WrittenFile with the file opened for appending
WrittenFileAppended(lines) == [exists |-> TRUE, lines |-> iter_file.lines \o lines]

\* lines 211-212: open(iter_file, 'w') and writelines
WrittenFile(lines) == [exists |-> TRUE, lines |-> lines]

\* lines 193-203
RunSampling ==
    /\ pc = "run_sampling"
    /\ IF SkipsRun
       THEN /\ pc' = "exited"
            /\ outcome' = "returned"
            /\ UNCHANGED <<args, dataset, dumped_ds, index>>
       ELSE IF SelectFails(sampling_dataset, cur_proc, total_proc)
       THEN /\ pc' = "exited"
            /\ outcome' = "IndexError"
            /\ UNCHANGED <<args, dataset, dumped_ds, index>>
       ELSE /\ dataset' = get_dataset(sampling_dataset, cur_proc, total_proc)
            /\ dumped_ds' = <<>>
            /\ args' = [args EXCEPT !.num_sampling_per_gpu_batches =
                                        AdjustedBatches(dataset')]
            /\ index' = 0
            /\ pc' = "rs_loop"
            /\ UNCHANGED outcome
    /\ UNCHANGED <<dirExists, iter_file, file_before, engine_calls, argv,
                   orm_model, prm_model, dev_count, nproc, cur_proc, total_proc,
                   sampling_dataset, handlers, launch, data, batch_decoded_all,
                   i, generated, rec>>
    /\ UNCHANGED <<batched_vars, opencompass_vars, tokenizer_vars>>

\* lines 205-208: the next sub-batch is handed to do_sample
RunSamplingBatch ==
    /\ pc = "rs_loop"
    /\ index < args.num_sampling_per_gpu_batches
    /\ IF SubscriptFails(dataset, SubscriptKey(index))
       THEN /\ pc' = "exited"
            /\ outcome' = "IndexError"
            /\ UNCHANGED data
       ELSE /\ data' = Subscript(dataset, SubscriptKey(index))
            /\ pc' = "do_sample"
            /\ UNCHANGED outcome
    /\ UNCHANGED <<run_vars, engine_calls, dumped_ds, index, batch_decoded_all,
                   i, generated, rec>>
    /\ UNCHANGED <<batched_vars, opencompass_vars, tokenizer_vars>>

\* lines 211-212, then run_sampling and run() return
RunSamplingWrite ==
    /\ pc = "rs_loop"
    /\ index >= args.num_sampling_per_gpu_batches
    /\ iter_file' = WrittenFile(dumped_ds)
    /\ pc' = "exited"
    /\ outcome' = "returned"
    /\ UNCHANGED <<dirExists, file_before, engine_calls, argv, args,
                   orm_model, prm_model, dev_count, nproc, cur_proc, total_proc,
                   sampling_dataset, handlers, launch, dataset, dumped_ds, index,
                   data, batch_decoded_all, i, generated, rec>>
    /\ UNCHANGED <<batched_vars, opencompass_vars, tokenizer_vars>>

(***************************************************************************)
(* run (lines 214-239)                                                     *)
(***************************************************************************)
\* DevicesOk without the test for at least one device
DevicesOkDivisibleOnly(devs, n) == devs % n = 0

\* line 218
DevicesOk(devs, n) == devs > 0 /\ devs % n = 0

\* line 225
DevPerProc(devs, n) == devs \div n

\* line 226: range(0, dev_count, )
SpawnRange(devs, n) == 0..(devs - 1)

\* line 234: list(range(dev_per_proc * proc, dev_per_proc * (proc + 1)))
GpusOf(devs, n, proc) ==
    [k \in 1..DevPerProc(devs, n) |-> DevPerProc(devs, n) * proc + k - 1]

\* WorkerPrefix without the suffix that names the worker
WorkerPrefixShared(file_prefix, proc) == file_prefix

\* line 229: tmp_args.file_prefix + f'_proc_{proc}'
WorkerPrefix(file_prefix, proc) == file_prefix \o "_proc_" \o ToString(proc)

\* lines 193-194: the output file of a sampler that runs with the arguments a
IterFilePath(a) == a.output_dir \o "/" \o a.file_prefix \o "_sampling.jsonl"

\* lines 228-229: the arguments handed to the worker of one proc
TmpArgs(proc) == [args EXCEPT !.file_prefix = WorkerPrefix(args.file_prefix, proc)]

\* lines 228-234: what the loop evaluates for one proc before it builds the process
LaunchOf(devs, n, proc) ==
    [proc |-> proc,
     file_prefix |-> TmpArgs(proc).file_prefix,
     data_range |-> <<proc, n>>,
     gpus |-> GpusOf(devs, n, proc)]

\* lines 215-223
Run ==
    /\ pc = "constructed"
    /\ file_before' = iter_file
    /\ engine_calls' = 0
    /\ rec' = NoRec
    /\ \E devs \in 0..MaxDev :
          /\ dev_count' = devs
          /\ IF dirExists
             THEN \* line 215: os.makedirs without exist_ok
                  /\ outcome' = "FileExistsError"
                  /\ pc' = "exited"
                  /\ UNCHANGED dirExists
             ELSE /\ dirExists' = TRUE
                  /\ IF ~DevicesOk(devs, nproc)
                     THEN /\ outcome' = "AssertionError"
                          /\ pc' = "exited"
                     ELSE /\ outcome' = "none"
                          /\ pc' = IF nproc = 1 THEN "run_sampling" ELSE "spawn_loop"
    /\ UNCHANGED <<iter_file, argv, args, orm_model, prm_model, nproc, cur_proc,
                   total_proc, sampling_dataset, handlers, launch, dataset,
                   dumped_ds, index, data, batch_decoded_all, i, generated>>
    /\ UNCHANGED <<batched_vars, opencompass_vars, tokenizer_vars>>

\* lines 226-235, first pass of the loop: mp.Process has no parameter named
\* initializer, so building the process raises TypeError before any start()
RunSpawn ==
    /\ pc = "spawn_loop"
    /\ \E proc \in SpawnRange(dev_count, nproc) :
          /\ \A q \in SpawnRange(dev_count, nproc) : proc <= q
          /\ launch' = LaunchOf(dev_count, nproc, proc)
    /\ outcome' = "TypeError"
    /\ pc' = "exited"
    /\ UNCHANGED <<dirExists, iter_file, file_before, engine_calls, argv,
                   args, orm_model, prm_model, dev_count, nproc, cur_proc,
                   total_proc, sampling_dataset, handlers, dataset, dumped_ds,
                   index, data, batch_decoded_all, i, generated, rec>>
    /\ UNCHANGED <<batched_vars, opencompass_vars, tokenizer_vars>>

\* run_sampling called on the constructed sampler without run()
CallRunSampling ==
    /\ pc = "constructed"
    /\ nproc = 1
    /\ file_before' = iter_file
    /\ engine_calls' = 0
    /\ rec' = NoRec
    /\ outcome' = "none"
    /\ pc' = "run_sampling"
    /\ UNCHANGED <<dirExists, iter_file, argv, args, orm_model, prm_model,
                   dev_count, nproc, cur_proc, total_proc, sampling_dataset,
                   handlers, launch, dataset, dumped_ds, index, data,
                   batch_decoded_all, i, generated>>
    /\ UNCHANGED <<batched_vars, opencompass_vars, tokenizer_vars>>

\* lines 57-60: the next sampler process is built from the same configuration;
\* nothing of the previous process's memory is left
Construct ==
    /\ pc = "exited"
    /\ pc' = "constructed"
    /\ outcome' = "none"
    /\ dirExists' = TRUE
    /\ args' = argv
    /\ dev_count' = 0
    /\ launch' = NoLaunch
    /\ dataset' = <<>>
    /\ dumped_ds' = <<>>
    /\ index' = 0
    /\ data' = <<>>
    /\ batch_decoded_all' = <<>>
    /\ i' = 0
    /\ generated' = <<>>
    /\ rec' = NoRec
    /\ UNCHANGED <<iter_file, file_before, engine_calls, argv, orm_model,
                   prm_model, nproc, cur_proc, total_proc, sampling_dataset,
                   handlers>>
    /\ UNCHANGED <<batched_vars, opencompass_vars, tokenizer_vars>>

\* another program removes the output directory and what it holds
EnvRemoveDir ==
    /\ pc = "constructed"
    /\ dirExists
    /\ dirExists' = FALSE
    /\ iter_file' = NoFile
    /\ UNCHANGED <<pc, outcome, file_before, engine_calls, argv, args,
                   orm_model, prm_model, dev_count, nproc, cur_proc, total_proc,
                   sampling_dataset, handlers, launch, dataset, dumped_ds, index,
                   data, batch_decoded_all, i, generated, rec>>
    /\ UNCHANGED <<batched_vars, opencompass_vars, tokenizer_vars>>

(***************************************************************************)
(* Inputs                                                                  *)
(***************************************************************************)
\* Record k of the dataset. Record 0 is the record of the specification's
\* end-to-end example, with the one-character ground truth "4"; the other
\* records have a ground truth of two characters. Even records end with the
\* user's turn, odd records start with a system turn and end with the empty
\* assistant turn to generate.
Row(k) ==
    IF k % 2 = 0
    THEN [messages |-> <<[role |-> "user",
                          content |-> IF k = 0 THEN "2+2?" ELSE "q" \o ToString(k)]>>,
          ground_truth |-> IF k = 0 THEN <<"4">> ELSE <<"c", "d">>]
    ELSE [messages |-> <<[role |-> "system", content |-> "s0"],
                         [role |-> "user", content |-> "q" \o ToString(k)],
                         [role |-> "assistant", content |-> None]>>,
          ground_truth |-> <<"a", "b">>]

DatasetOfLength(n) == [k \in 1..n |-> Row(k - 1)]

\* the sub-batches do_sample is tried on: one or two distinct records
Batches == {<<Row(0)>>, <<Row(1)>>, <<Row(0), Row(1)>>, <<Row(1), Row(0)>>}

Thresholds == {<<1, 2>>, <<1, 1>>}

ArgsOf(N, keep, easy, system, override, size, batches) ==
    [num_return_sequences |-> N, n_best_to_keep |-> keep,
     easy_query_threshold |-> easy, system |-> system,
     override_exist_file |-> override,
     num_sampling_per_gpu_batch_size |-> size,
     num_sampling_per_gpu_batches |-> batches,
     output_dir |-> "out", file_prefix |-> "iter"]

\* num_return_sequences=4, easy_query_threshold=0.5
EasyExampleArgs == ArgsOf(4, 1, <<1, 2>>, None, FALSE, 1, 1)

\* reward models: the raw scores each may return
OrmBinary == {0, Unit}
OrmSigned == {0 - Unit, 0, Unit}
OrmGraded == {0, 19, 20}
PrmGraded == {2, 8, Unit}
PrmBinary == {2, Unit}
PrmConstant == {Unit}
PrmLarge == {2, 15}

\* DATA_RANGE (lines 24-27): unset, or the pair a launcher gives a worker
DataRanges == {<<0, 1>>, <<0, 2>>, <<1, 2>>}

(***************************************************************************)
(* Spec: sampler processes, from construction to exit                      *)
(***************************************************************************)
Init ==
    /\ pc = "constructed"
    /\ outcome = "none"
    /\ dirExists = TRUE
    /\ iter_file = NoFile
    /\ file_before = NoFile
    /\ engine_calls = 0
    /\ \E N \in 1..MaxN, override \in BOOLEAN, size \in 1..2,
          batches \in {NoCount, 1, 2} :
          argv = ArgsOf(N, 1, <<1, 1>>, None, override, size, batches)
    /\ args = argv
    /\ orm_model = OrmBinary
    /\ prm_model = PrmConstant
    /\ dev_count = 0
    /\ nproc \in 1..MaxDev
    /\ \E r \in DataRanges : cur_proc = r[1] /\ total_proc = r[2]
    /\ \E n \in 0..MaxData : sampling_dataset = DatasetOfLength(n)
    /\ handlers = <<>>
    /\ launch = NoLaunch
    /\ dataset = <<>>
    /\ dumped_ds = <<>>
    /\ index = 0
    /\ data = <<>>
    /\ batch_decoded_all = <<>>
    /\ i = 0
    /\ generated = <<>>
    /\ rec = NoRec
    /\ BatchedIdle /\ OpenCompassIdle /\ TokenizerIdle

Next ==
    \/ Run
    \/ RunSpawn
    \/ CallRunSampling
    \/ RunSampling
    \/ RunSamplingBatch
    \/ RunSamplingWrite
    \/ DoSampleGenerate
    \/ DoSampleBody
    \/ DoSampleNext
    \/ DoSampleReturn
    \/ Construct
    \/ EnvRemoveDir

Spec == Init /\ [][Next]_vars

(***************************************************************************)
(* SpecSample: one call of do_sample by run_sampling, on any sub-batch     *)
(***************************************************************************)
InitSample ==
    /\ pc = "do_sample"
    /\ outcome = "none"
    /\ dirExists = TRUE
    /\ iter_file = NoFile
    /\ file_before = NoFile
    /\ engine_calls = 0
    /\ \/ /\ \E N \in 1..MaxN, keep \in 1..2, easy \in Thresholds,
                  system \in {None, "sys"} :
                  argv = ArgsOf(N, keep, easy, system, FALSE, 1, 1)
          /\ \E m \in {<<OrmBinary, PrmGraded>>, <<OrmSigned, PrmBinary>>} :
                  orm_model = m[1] /\ prm_model = m[2]
          /\ data \in Batches
       \/ \* the easy-query example of the specification
          /\ argv = EasyExampleArgs
          /\ orm_model = OrmBinary
          /\ prm_model = PrmConstant
          /\ data = <<Row(1)>>
       \/ \* an outcome reward model with close scores, 1.9 and 2.0
          /\ \E N \in 1..MaxN : argv = ArgsOf(N, 1, <<1, 1>>, None, FALSE, 1, 1)
          /\ orm_model = OrmGraded
          /\ prm_model = PrmBinary
          /\ data = <<Row(0)>>
       \/ \* a process reward model whose scores go above 1.0
          /\ \E N \in 1..MaxN : argv = ArgsOf(N, 1, <<1, 1>>, None, FALSE, 1, 1)
          /\ orm_model = OrmBinary
          /\ prm_model = PrmLarge
          /\ data = <<Row(0)>>
    /\ args = argv
    /\ dev_count = 1
    /\ nproc = 1
    /\ cur_proc = 0
    /\ total_proc = 1
    /\ sampling_dataset = data
    /\ dataset = data
    /\ handlers = <<>>
    /\ launch = NoLaunch
    /\ dumped_ds = <<>>
    /\ index = 0
    /\ batch_decoded_all = <<>>
    /\ i = 0
    /\ generated = <<>>
    /\ rec = NoRec
    /\ BatchedIdle /\ OpenCompassIdle /\ TokenizerIdle

NextSample ==
    \/ DoSampleGenerate
    \/ DoSampleBody
    \/ DoSampleNext
    \/ DoSampleReturn

SpecSample == InitSample /\ [][NextSample]_vars


(***************************************************************************)
(* SpecBatches: one call of run_sampling by a sampler process whose output *)
(* file is absent or left by an earlier run                                *)
(***************************************************************************)
\* an output file an earlier run left: one pair for the record Row(0)
OldFile == [exists |-> TRUE, lines |-> <<PairOf(Row(0), GenText(0), GenText(0))>>]

\* the values of num_return_sequences run_sampling is tried with
BatchReturnSequences == {1, 2}

InitBatches ==
    /\ pc = "run_sampling"
    /\ outcome = "none"
    /\ dirExists = TRUE
    /\ iter_file \in {NoFile, OldFile}
    /\ file_before = iter_file
    /\ engine_calls = 0
    /\ \E N \in BatchReturnSequences, keep \in 1..2, override \in BOOLEAN,
          size \in 1..2, batches \in {NoCount, 1, 2} :
          argv = ArgsOf(N, keep, <<1, 1>>, None, override, size, batches)
    /\ args = argv
    /\ orm_model = OrmBinary
    /\ prm_model = PrmConstant
    /\ dev_count = 1
    /\ nproc = 1
    /\ cur_proc = 0
    /\ total_proc = 1
    /\ \E n \in 0..MaxShard : sampling_dataset = DatasetOfLength(n)
    /\ handlers = <<>>
    /\ launch = NoLaunch
    /\ dataset = <<>>
    /\ dumped_ds = <<>>
    /\ index = 0
    /\ data = <<>>
    /\ batch_decoded_all = <<>>
    /\ i = 0
    /\ generated = <<>>
    /\ rec = NoRec
    /\ BatchedIdle /\ OpenCompassIdle /\ TokenizerIdle

NextBatches ==
    \/ RunSampling
    \/ RunSamplingBatch
    \/ RunSamplingWrite
    \/ DoSampleGenerate
    \/ DoSampleBody
    \/ DoSampleNext
    \/ DoSampleReturn

SpecBatches == InitBatches /\ [][NextBatches]_vars


(***************************************************************************)
(* Properties of do_sample, checked under SpecSample                       *)
(***************************************************************************)
\* an iteration of the scoring loop has got past line 171
Scored == rec /= NoRec /\ ~rec.raised

Slots == 0..args.num_return_sequences

\* the threshold of the specification's example for the process reward, 0.5
PrmThreshold == Unit \div 2

\* the slots whose normalized score is positive, told from the raw scores: a
\* raw score above the minimum, or a positive raw score when all are equal
PositiveSlots(raw) ==
    {k \in DOMAIN raw :
        IF \A j \in DOMAIN raw : raw[j] = raw[k]
        THEN raw[k] > 0
        ELSE \E j \in DOMAIN raw : raw[j] < raw[k]}

\* every turn of a row's conversation before the turn to generate
GenerationPrefix(row) ==
    IF row.messages[Len(row.messages)].role = "assistant"
    THEN SubSeq(row.messages, 1, Len(row.messages) - 1)
    ELSE row.messages

\* C1: the rejected example of a record is a slot with the lowest combined
\* score among the record's N+1 scored slots.
C1_NegativeIsLowest ==
    Scored => \A k \in Slots : At(rec.score, rec.neg_index) <= At(rec.score, k)

\* C2: the positive examples of a record are exactly the slots among the top
\* n_best_to_keep of the descending order whose raw process reward reaches the
\* threshold; no slot below the threshold is chosen, and none is substituted.
C2_PositivesPassThreshold ==
    Scored =>
        /\ rec.pos_indexes =
              SelectSeq(Prefix(rec.sorted_indices, args.n_best_to_keep),
                        LAMBDA k : At(rec.prm_raw, k) >= PrmThreshold)
        /\ \A k \in 1..Len(rec.pos_indexes) :
              At(rec.prm_raw, rec.pos_indexes[k]) >= PrmThreshold

\* the inputs of the end-to-end example: [user: "2+2?"], ground truth "4",
\* N = 2, candidates "4" and "5", outcome rewards 1, 0, 1, process rewards
\* 0.8, 0.2, 1.0, n_best_to_keep = 1, easy_query_threshold = 1
IsEndToEndExample ==
    /\ Scored
    /\ i = 0
    /\ At(data, 0) = Row(0)
    /\ args.num_return_sequences = 2
    /\ args.n_best_to_keep = 1
    /\ args.easy_query_threshold = <<1, 1>>
    /\ rec.batch_decoded = <<"4", "5", "4">>
    /\ rec.orm_raw = <<Unit, 0, Unit>>
    /\ rec.prm_raw = <<8, 2, Unit>>

\* C3: on the end-to-end example do_sample emits exactly one pair, whose
\* chosen response is the ground truth "4" (slot 2) and whose rejected
\* response is the candidate "5" (slot 1).
C3_EndToEndExample ==
    IsEndToEndExample =>
        /\ Len(rec.emitted) = 1
        /\ rec.pos_indexes = <<2>>
        /\ rec.neg_index = 1
        /\ rec.emitted[1].messages[Len(rec.emitted[1].messages)].content = "4"
        /\ rec.emitted[1].rejected_response = "5"

\* C4: in every emitted pair, messages is the record's conversation before
\* the turn to generate, unchanged, followed by one message holding the
\* chosen response, and rejected_response is the negative candidate's text.
C4_PairShape ==
    Scored =>
        \A k \in 1..Len(rec.emitted) :
            LET pair == rec.emitted[k]
                prefix == GenerationPrefix(At(data, i))
            IN  /\ Len(pair.messages) = Len(prefix) + 1
                /\ SubSeq(pair.messages, 1, Len(prefix)) = prefix
                /\ pair.messages[Len(pair.messages)].content
                      = At(rec.batch_decoded, rec.pos_indexes[k])
                /\ pair.rejected_response = At(rec.batch_decoded, rec.neg_index)

\* C5 as stated: a record emits no pair exactly when the number of slots with
\* a positive outcome reward, less one, is at least
\* num_return_sequences x easy_query_threshold; otherwise it emits one pair
\* per surviving positive.
C5_SkipAtRealThreshold ==
    Scored =>
        /\ (Len(rec.emitted) = 0) <=>
              ((Cardinality(PositiveSlots(rec.orm_raw)) - 1) * args.easy_query_threshold[2]
                  >= args.num_return_sequences * args.easy_query_threshold[1])
        /\ Len(rec.emitted) /= 0 => Len(rec.emitted) = Len(rec.pos_indexes)

\* C5, amended: a record is skipped as easy, emitting no pair, exactly when
\* the number of slots with a positive normalized outcome reward, less one,
\* is at least int(num_return_sequences x easy_query_threshold); otherwise
\* it emits one pair per surviving positive.
C5_SkipAtTruncatedThreshold ==
    Scored =>
        LET easy == Cardinality(PositiveSlots(rec.orm_raw)) - 1
                       >= (args.num_return_sequences * args.easy_query_threshold[1])
                             \div args.easy_query_threshold[2]
        IN  /\ rec.skipped <=> easy
            /\ Len(rec.emitted) = IF easy THEN 0 ELSE Len(rec.pos_indexes)

\* C5, witness: num_return_sequences = 4, easy_query_threshold = 0.5, three
\* candidates and the ground truth with a positive outcome reward: no pair.
C5_Witness ==
    /\ Scored
    /\ args.num_return_sequences = 4
    /\ args.easy_query_threshold = <<1, 2>>
    /\ rec.orm_raw[5] > 0
    /\ Cardinality(PositiveSlots(rec.orm_raw)) = 4
    /\ rec.pos_indexes /= <<>>
    /\ rec.emitted = <<>>

\* C6: whenever no slot of a record has a positive outcome reward, do_sample
\* aborts with an error that ends the process, and no pair is emitted for
\* the record.
C6_FailFast ==
    (rec /= NoRec /\ \A k \in DOMAIN rec.orm_raw : rec.orm_raw[k] <= 0) =>
        /\ rec.raised
        /\ pc = "exited"
        /\ outcome = "RuntimeError"
        /\ rec.emitted = <<>>

\* C7: candidate j of record i is the content of the engine's response at
\* position i * num_return_sequences + j of the flattened request list, which
\* answers the j-th request submitted for record i.
C7_OrderPreserved ==
    pc = "score_loop" =>
        /\ Len(batch_decoded_all) = Len(data)
        /\ \A r \in 0..(Len(data) - 1), j \in 0..(args.num_return_sequences - 1) :
              LET k == r * args.num_return_sequences + j
              IN  /\ At(At(batch_decoded_all, r), j)
                        = At(EngineInfer(InferRequests(data)), k)
                  /\ At(InferRequests(data), k).row = r
                  /\ At(InferRequests(data), k).copy = j
        /\ Scored =>
              \A j \in 0..(args.num_return_sequences - 1) :
                  At(rec.batch_decoded, j)
                      = At(EngineInfer(InferRequests(data)),
                           i * args.num_return_sequences + j)

\* C7, witness: the second record of a sub-batch of two is scored with its own
\* two candidates, the responses at positions 2 and 3.
C7_Witness ==
    /\ pc = "score_loop"
    /\ Scored
    /\ Len(data) = 2
    /\ args.num_return_sequences = 2
    /\ i = 1
    /\ At(rec.batch_decoded, 0) = GenText(2)
    /\ At(rec.batch_decoded, 1) = GenText(3)

\* element k of a normalized array has the value a / b
HasValue(norm, k, a, b) == norm.num[k] * (EpsInv \div Unit) * b = a * norm.den

\* element k of a normalized array lies in [0, 1]
InUnitInterval(norm, k) ==
    norm.num[k] >= 0 /\ norm.num[k] * (EpsInv \div Unit) <= norm.den

\* C16: every normalized score _get_reward returns lies in [0, 1], for the
\* outcome and for the process reward model, whatever the raw scores are.
C16_NormalizedInUnitInterval ==
    rec /= NoRec =>
        /\ \A k \in DOMAIN rec.orm_score.num : InUnitInterval(rec.orm_score, k)
        /\ \A k \in DOMAIN rec.prm_score.num : InUnitInterval(rec.prm_score, k)

\* all raw scores are v, and what normalize returned for them is the constant
\* array of the same length holding 0.0 when v = 0 and min(1.0, v) when v > 0
DegenerateAsStated(raw, norm) ==
    \A v \in Range(raw) :
        ((\A k \in DOMAIN raw : raw[k] = v) /\ v >= 0) =>
            /\ DOMAIN norm.num = DOMAIN raw
            /\ \A k \in DOMAIN raw :
                  HasValue(norm, k, IF v = 0 THEN 0 ELSE IF v > Unit THEN Unit ELSE v,
                           Unit)

\* C17: when all raw scores of a scoring batch are the same value v >= 0, the
\* normalized array is constant and as long as the batch; the constant is 0.0
\* when v = 0 and min(1.0, v) when v > 0.
C17_DegenerateNormalization ==
    rec /= NoRec =>
        /\ DegenerateAsStated(rec.orm_raw, rec.orm_score)
        /\ DegenerateAsStated(rec.prm_raw, rec.prm_score)

\* C17, witness: three process rewards of 1.5 each were normalized to 1.0, and
\* the outcome rewards of the same batch were not all equal.
C17_Witness ==
    /\ rec /= NoRec
    /\ Len(rec.prm_raw) = 3
    /\ \A k \in DOMAIN rec.prm_raw : rec.prm_raw[k] = 15
    /\ \A k \in DOMAIN rec.prm_raw : HasValue(rec.prm_score, k, 1, 1)
    /\ Len(rec.prm_score.num) = 3
    /\ rec.orm_raw[1] /= rec.orm_raw[2]

\* P[a] + 10 * O[a] >= P[b] + 10 * O[b] for the normalized scores of rec
CombinedAtLeast(a, b) ==
    (At(rec.prm_score.num, a) - At(rec.prm_score.num, b)) * rec.orm_score.den
      + 10 * (At(rec.orm_score.num, a) - At(rec.orm_score.num, b)) * rec.prm_score.den
      >= 0

\* the reference: the stable descending sort of the slots by combined score
ReferenceOrder ==
    CHOOSE p \in IndexOrders(Len(rec.score)) :
        \A a, b \in 1..Len(rec.score) :
            a < b => \/ ~CombinedAtLeast(p[b], p[a])
                     \/ (CombinedAtLeast(p[a], p[b]) /\ p[a] < p[b])

\* the indices at the first k places of an order
TopSet(order, k) == {order[j] : j \in 1..Min2(k, Len(order))}

\* sorted_indices lists every slot once, by non-increasing combined score
IsDescendingRanking ==
    /\ Len(rec.sorted_indices) = args.num_return_sequences + 1
    /\ Range(rec.sorted_indices) = Slots
    /\ \A a, b \in 1..Len(rec.sorted_indices) :
          a < b => CombinedAtLeast(rec.sorted_indices[a], rec.sorted_indices[b])

\* C18 as stated: the ranking is the descending order of P + 10 * O, and its
\* first n_best_to_keep indices are, as a set, those of the reference sort.
C18_TopKMatchesReference ==
    Scored =>
        /\ IsDescendingRanking
        /\ TopSet(rec.sorted_indices, args.n_best_to_keep)
              = TopSet(ReferenceOrder, args.n_best_to_keep)

\* C18, amended: the ranking is a descending order of P + 10 * O; its first
\* n_best_to_keep indices are as many slots as the reference takes, none of
\* them scored below a slot left out, and they are the reference's set
\* whenever no slot left out by the reference ties with one it takes.
C18_TopKIsHighest ==
    Scored =>
        LET top == TopSet(rec.sorted_indices, args.n_best_to_keep)
            ref == TopSet(ReferenceOrder, args.n_best_to_keep)
        IN  /\ IsDescendingRanking
            /\ Cardinality(top) = Cardinality(ref)
            /\ \A x \in top, y \in Slots \ top : CombinedAtLeast(x, y)
            /\ (\A x \in ref, y \in Slots \ ref : ~CombinedAtLeast(y, x)) => top = ref

\* C18, witness: two slots tie for the first place, and the ranking puts
\* first the one the reference sort puts second.
C18_Witness ==
    /\ Scored
    /\ args.n_best_to_keep = 1
    /\ ReferenceOrder[1] /= rec.sorted_indices[1]
    /\ ReferenceOrder[1] = rec.sorted_indices[2]
    /\ CombinedAtLeast(rec.sorted_indices[2], rec.sorted_indices[1])
    /\ \E y \in Slots : ~CombinedAtLeast(y, rec.sorted_indices[1])

\* the place of slot x in the ranking
PlaceOf(x) == CHOOSE j \in 1..Len(rec.sorted_indices) : rec.sorted_indices[j] = x

\* O[a] > O[b], O[a] = O[b] and O[a] - O[b] >= 0.1 for the normalized outcome
\* rewards of rec; P[a] > P[b] for its normalized process rewards
OutcomeAbove(a, b) == At(rec.orm_score.num, a) > At(rec.orm_score.num, b)

OutcomeSame(a, b) == At(rec.orm_score.num, a) = At(rec.orm_score.num, b)

OutcomeWellAbove(a, b) ==
    (At(rec.orm_score.num, a) - At(rec.orm_score.num, b)) * (EpsInv \div Unit) * 10
        >= rec.orm_score.den

ProcessAbove(a, b) == At(rec.prm_score.num, a) > At(rec.prm_score.num, b)

\* C19 as stated: a slot with a strictly greater normalized outcome reward is
\* ranked before the other whatever the process rewards are, and between
\* slots of equal outcome reward the greater process reward comes first.
C19_OutcomeDominates ==
    Scored =>
        \A a, b \in Slots :
            /\ OutcomeAbove(a, b) => PlaceOf(a) < PlaceOf(b)
            /\ (OutcomeSame(a, b) /\ ProcessAbove(a, b)) => PlaceOf(a) < PlaceOf(b)

\* C19, amended: slot a is ranked before slot b whenever
\* 10 * (O[a] - O[b]) > P[b] - P[a]; that is so whatever the process rewards
\* are when O[a] - O[b] >= 0.1, and between slots of equal outcome reward
\* when P[a] > P[b].
C19_WeightedOutcome ==
    Scored =>
        \A a, b \in Slots :
            /\ ~CombinedAtLeast(b, a) => PlaceOf(a) < PlaceOf(b)
            /\ OutcomeWellAbove(a, b) => PlaceOf(a) < PlaceOf(b)
            /\ (OutcomeSame(a, b) /\ ProcessAbove(a, b)) => PlaceOf(a) < PlaceOf(b)

\* C19, witness: of three slots one is ranked before a slot of greater
\* process reward because its outcome reward is greater by 0.1 or more, and
\* one is ranked after a slot of smaller outcome reward.
C19_Witness ==
    /\ Scored
    /\ \E a, b \in Slots :
          OutcomeWellAbove(a, b) /\ ProcessAbove(b, a) /\ PlaceOf(a) < PlaceOf(b)
    /\ \E a, b \in Slots :
          OutcomeAbove(a, b) /\ PlaceOf(b) < PlaceOf(a)

\* the ground truth of a record as a whole: its characters in a row
RECURSIVE JoinChars(_)
JoinChars(chars) ==
    IF chars = <<>> THEN "" ELSE chars[1] \o JoinChars(Tail(chars))

\* a record's conversation up to the turn to generate, ending in the
\* assistant's response c
ConversationEndingIn(row, c) ==
    Append(GenerationPrefix(row), [role |-> "assistant", content |-> c])

\* C20: the scoring batch of a record has N + 1 requests: request j < N is the
\* record's conversation ending in its j-th generated candidate, request N is
\* the record's conversation ending in the record's ground truth; both reward
\* models score exactly these requests, and each array of scores is
\* normalized on its own.
C20_ScoringBatch ==
    rec /= NoRec =>
        LET row == At(data, i)
            N == args.num_return_sequences
        IN  /\ Len(rec.infer_requests) = N + 1
            /\ \A j \in 0..(N - 1) :
                  At(rec.infer_requests, j).messages
                     = ConversationEndingIn(row, GenText(i * N + j))
            /\ At(rec.infer_requests, N).messages
                  = ConversationEndingIn(row, JoinChars(row.ground_truth))
            /\ DOMAIN rec.orm_raw = DOMAIN rec.infer_requests
            /\ DOMAIN rec.prm_raw = DOMAIN rec.infer_requests
            /\ Len(rec.orm_score.num) = N + 1
            /\ Len(rec.prm_score.num) = N + 1
            /\ (\E a, b \in Slots : At(rec.orm_raw, a) /= At(rec.orm_raw, b)) =>
                  \E k \in Slots : At(rec.orm_score.num, k) = 0
            /\ (\E a, b \in Slots : At(rec.prm_raw, a) /= At(rec.prm_raw, b)) =>
                  \E k \in Slots : At(rec.prm_score.num, k) = 0

\* the records of the sub-batch whose two scoring calls have been made
ScoredRecords == i + (IF rec = NoRec THEN 0 ELSE 1)

\* C21: a call of do_sample makes one call of the inference engine, on a list
\* of (records of the sub-batch) x num_return_sequences requests in which the
\* requests of record r are at the positions [r * N, (r + 1) * N); after it
\* the only calls are the two scoring calls of each record, so no call is
\* made a second time.
C21_OneEngineCall ==
    LET N == args.num_return_sequences
    IN  /\ pc = "do_sample" => engine_calls = 0
        /\ pc = "score_loop" =>
              /\ engine_calls = 1 + 2 * ScoredRecords
              /\ Len(batch_decoded_all) = Len(data)
              /\ Len(InferRequests(data)) = Len(data) * N
              /\ \A r \in 0..(Len(data) - 1) :
                    {k \in 0..(Len(data) * N - 1) : At(InferRequests(data), k).row = r}
                       = (r * N)..((r + 1) * N - 1)
        /\ pc = "rs_loop" => engine_calls = 1 + 2 * Len(data)

\* C21, witness: the second record of a sub-batch of two has been scored
\* after five calls: one of the engine and two for each record.
C21_Witness ==
    /\ pc = "score_loop"
    /\ Len(data) = 2
    /\ args.num_return_sequences = 2
    /\ i = 1
    /\ rec /= NoRec
    /\ engine_calls = 5
    /\ Len(InferRequests(data)) = 4

\* C24: the negative index of a record is none of its positive indexes, and
\* no pair is emitted whose chosen and rejected responses are the text of the
\* same slot.
C24_NegativeIsNotPositive ==
    Scored =>
        /\ \A k \in 1..Len(rec.pos_indexes) : rec.pos_indexes[k] /= rec.neg_index
        /\ \A k \in 1..Len(rec.emitted) :
              rec.emitted[k].messages[Len(rec.emitted[k].messages)].content
                 /= rec.emitted[k].rejected_response

(***************************************************************************)
(* Properties of run and run_sampling, checked under Spec                  *)
(***************************************************************************)
\* C8: a run entered with the output file present and override_exist_file
\* unset leaves the file untouched, calls neither the engine nor a reward
\* model, and ends without an exception.
C8_SecondRunIsNoOp ==
    (pc = "exited" /\ file_before.exists /\ ~args.override_exist_file) =>
        /\ outcome = "returned"
        /\ iter_file = file_before
        /\ engine_calls = 0

\* run() got to its branch on NPROC_PER_NODE in multi-process mode and has ended
FanOutEnded ==
    /\ pc = "exited"
    /\ nproc > 1
    /\ DevicesOk(dev_count, nproc)
    /\ outcome /= "FileExistsError"

\* C9: with NPROC_PER_NODE = nproc > 1 dividing the device count, run() starts
\* exactly nproc workers, and worker p gets the devices [p * d, (p + 1) * d),
\* d = device_count / nproc.
C9_FanOut ==
    FanOutEnded =>
        /\ Len(handlers) = nproc
        /\ \A p \in 1..Len(handlers) :
              handlers[p].gpus = GpusOf(dev_count, nproc, p - 1)

\* C10: the (shard_index, shard_count) pair run() gives each worker selects a
\* range of positions inside the dataset, and the ranges of two different
\* workers are disjoint.
C10_StaticSharding ==
    FanOutEnded =>
        \A p, q \in SpawnRange(dev_count, nproc) :
            /\ ShardRange(Len(sampling_dataset), p, nproc)
                  \subseteq 0..(Len(sampling_dataset) - 1)
            /\ p /= q =>
                  ShardRange(Len(sampling_dataset), p, nproc)
                     \cap ShardRange(Len(sampling_dataset), q, nproc) = {}

\* C11: in multi-process mode, when run() has ended, every shard index
\* 0..nproc-1 has a worker that was started and ran to its own exit, whatever
\* the exit of its siblings, and the parent waited for all of them.
C11_SiblingsComplete ==
    FanOutEnded =>
        /\ \A p \in 0..(nproc - 1) :
              \E h \in 1..Len(handlers) :
                  /\ handlers[h].data_range = <<p, nproc>>
                  /\ handlers[h].started
                  /\ handlers[h].exitcode /= None
        /\ outcome = "returned"

\* C12: in multi-process mode run() returns, and when it does children have
\* been started and none of them is still running.
C12_ParentJoinsAll ==
    FanOutEnded =>
        /\ outcome = "returned"
        /\ handlers /= <<>>
        /\ \A h \in 1..Len(handlers) :
              handlers[h].started /\ handlers[h].joined

C14_ResourcePrecondition ==
    [][(Run /\ (dev_count' = 0 \/ dev_count' % nproc /= 0)) =>
          /\ pc' = "exited"
          /\ outcome' \in {"AssertionError", "FileExistsError"}
          /\ engine_calls' = 0
          /\ handlers' = <<>>
          /\ launch' = NoLaunch
          /\ dataset' = <<>>
          /\ iter_file' = iter_file]_vars

\* C14, witness: run() has failed its assertion with a positive number of
\* accelerators that NPROC_PER_NODE does not divide.
C14_Witness ==
    /\ pc = "exited"
    /\ outcome = "AssertionError"
    /\ dev_count > 0
    /\ dev_count % nproc /= 0
    /\ engine_calls = 0
    /\ handlers = <<>>

(***************************************************************************)
(* Properties of run_sampling, checked under SpecBatches                   *)
(***************************************************************************)
\* run_sampling has returned after it executed (it was not skipped)
ExecutedRunEnded ==
    /\ pc = "exited"
    /\ outcome = "returned"
    /\ ~(file_before.exists /\ ~args.override_exist_file)

\* C15: after a run of run_sampling that executes, the output file holds
\* exactly the pairs emitted during that run and nothing of an earlier file,
\* one record per line, in the order of emission: sub-batches are taken in
\* increasing index order, the records of a sub-batch in their order, and the
\* pairs of a record in the order of its positives.
C15_FileIsThisRun ==
    /\ [](ExecutedRunEnded => iter_file = [exists |-> TRUE, lines |-> dumped_ds])
    /\ [][/\ index' /= index => index' = index + 1
          /\ dumped_ds' /= dumped_ds =>
                dumped_ds' = dumped_ds \o generated /\ index' = index + 1
          /\ data' /= data =>
                /\ pc = "rs_loop"
                /\ index' = index
                /\ data' = <<At(dataset, SubscriptKey(index)[1]),
                             At(dataset, SubscriptKey(index)[2])>>
          /\ i' /= i => i' = i + 1 \/ (i' = 0 /\ pc = "do_sample")
          /\ generated' /= generated =>
                \/ generated' = <<>> /\ pc = "do_sample"
                \/ /\ i' = i
                   /\ Scored'
                   /\ generated' = generated \o rec'.emitted
                   /\ Len(rec'.emitted) = Len(rec'.pos_indexes)
                   /\ \A k \in 1..Len(rec'.emitted) :
                         rec'.emitted[k].messages[Len(rec'.emitted[k].messages)].content
                            = At(rec'.batch_decoded, rec'.pos_indexes[k])
         ]_vars

\* C15, witness: a run that overwrote an earlier file has returned after two
\* sub-batches, and the file holds the three or more pairs it emitted.
C15_Witness ==
    /\ ExecutedRunEnded
    /\ file_before.exists
    /\ file_before.lines /= <<>>
    /\ index = 2
    /\ Len(iter_file.lines) >= 3
    /\ iter_file.lines = dumped_ds
    /\ iter_file.lines[1] /= file_before.lines[1]

\* C22: the sub-batch run_sampling hands to do_sample at index k is the
\* records at the positions [k * B, (k + 1) * B) of the shard, B being
\* num_sampling_per_gpu_batch_size: B records, contiguous, and disjoint from
\* the sub-batches of the other indexes.
C22_SubBatchIsSlice ==
    pc \in {"do_sample", "score_loop"} =>
        LET B == args.num_sampling_per_gpu_batch_size
        IN  /\ Len(data) = B
            /\ \A k \in 0..(B - 1) : At(data, k) = At(dataset, index * B + k)

\* C26: the shards _get_dataset selects for the workers 0..T-1 of a dataset
\* hold every record of the dataset exactly once.
C26_ShardCoverage ==
    pc = "rs_loop" =>
        \A k \in 0..(Len(sampling_dataset) - 1) :
            Cardinality({p \in 0..(total_proc - 1) :
                            k \in ShardRange(Len(sampling_dataset), p, total_proc)}) = 1

\* min(requested count, floor(shard length / batch size)), and the natural
\* count floor(shard length / batch size) when no count is requested
ExpectedBatches ==
    LET natural == Len(dataset) \div argv.num_sampling_per_gpu_batch_size
        requested == argv.num_sampling_per_gpu_batches
    IN  IF requested = NoCount THEN natural
        ELSE IF requested <= natural THEN requested ELSE natural

\* the calls of do_sample the current run of run_sampling has made
Invocations == index + (IF pc \in {"do_sample", "score_loop"} THEN 1 ELSE 0)

\* C23: the loop of run_sampling is bounded by min(requested
\* num_sampling_per_gpu_batches, floor(shard length / batch size)), the
\* natural count when none is requested: a run never calls do_sample more
\* often, and an executed run that returns has called it exactly that often.
C23_BatchCount ==
    /\ pc \in {"rs_loop", "do_sample", "score_loop"} =>
          /\ args.num_sampling_per_gpu_batches = ExpectedBatches
          /\ Invocations <= ExpectedBatches
    /\ ExecutedRunEnded => index = ExpectedBatches

\* C23, witness: two sub-batches were requested of a shard that has one, and
\* the run has returned after one call of do_sample.
C23_Witness ==
    /\ ExecutedRunEnded
    /\ argv.num_sampling_per_gpu_batches = 2
    /\ Len(dataset) \div argv.num_sampling_per_gpu_batch_size = 1
    /\ index = 1
    /\ engine_calls > 0

\* C25: a run of run_sampling that ends with an exception leaves the output
\* file as it found it, absent or with its previous content, whatever the
\* sub-batches before the exception produced; the file changes only in the
\* step in which run_sampling returns.
C25_AllOrNothing ==
    /\ []((pc = "exited" /\ outcome /= "returned") => iter_file = file_before)
    /\ [][iter_file' /= iter_file => (pc' = "exited" /\ outcome' = "returned")]_vars

\* C25, witness: do_sample raised in the second sub-batch after the first had
\* produced pairs, and the earlier file is as it was.
C25_Witness ==
    /\ pc = "exited"
    /\ outcome = "RuntimeError"
    /\ index = 1
    /\ dumped_ds /= <<>>
    /\ file_before.exists
    /\ iter_file = file_before

(***************************************************************************)
(* EvalModel._call_openai and call_openai_batched (eval.py, lines 42-74)   *)
(*                                                                         *)
(* args.eval_is_chat_model is "True", "False" or None.  The requests are   *)
(* coroutines of one event loop: as_completed hands them back in the order *)
(* in which they complete, which the service decides.                      *)
(***************************************************************************)
MaxPrompts == 3

\* the sampler is not running
SamplingIdle ==
    /\ pc = "idle"
    /\ outcome = "none"
    /\ dirExists = FALSE
    /\ iter_file = NoFile
    /\ file_before = NoFile
    /\ engine_calls = 0
    /\ argv = NoLaunch
    /\ args = NoLaunch
    /\ orm_model = {}
    /\ prm_model = {}
    /\ dev_count = 0
    /\ nproc = 1
    /\ cur_proc = 0
    /\ total_proc = 1
    /\ sampling_dataset = <<>>
    /\ handlers = <<>>
    /\ launch = NoLaunch
    /\ dataset = <<>>
    /\ dumped_ds = <<>>
    /\ index = 0
    /\ data = <<>>
    /\ batch_decoded_all = <<>>
    /\ i = 0
    /\ generated = <<>>
    /\ rec = NoRec

\* the queries of the evaluation
PromptTexts == {"p", "q"}

PromptLists == UNION {[1..n -> PromptTexts] : n \in 0..MaxPrompts}

\* lines 46-47: what the service answers to one request
Completion(query, is_chat_request) ==
    IF is_chat_request
    THEN [choices |-> <<[message |-> [content |-> "chat:" \o query]]>>]
    ELSE [choices |-> <<[text |-> "text:" \o query]>>]

\* lines 43-52
call_openai(query, is_chat_model, idx) ==
    LET resp == Completion(query, is_chat_model)
    IN  <<IF is_chat_model
          THEN At(resp.choices, 0).message.content
          ELSE At(resp.choices, 0).text,
          idx>>

\* StoreResponse with the response put into the first free slot
StoreResponseInArrivalOrder(list, result) ==
    LET free == {k \in 1..Len(list) : list[k] = None}
        slot == CHOOSE k \in free : \A j \in free : k <= j
    IN  [list EXCEPT ![slot] = result[1]]

\* lines 70-71: response, i = await coro; response_list[i] = response
StoreResponse(list, result) == [list EXCEPT ![result[2] + 1] = result[1]]

\* lines 55-68
CallOpenaiBatched ==
    /\ cb_pc = "start"
    /\ IF eval_is_chat_model = None
       THEN /\ cb_pc' = "AssertionError"
            /\ UNCHANGED <<tasks, response_list>>
       ELSE /\ tasks' = 0..(Len(prompts) - 1)
            /\ response_list' = [k \in 1..Len(prompts) |-> None]
            /\ cb_pc' = "as_completed"
    /\ UNCHANGED <<prompts, eval_is_chat_model, arrival>>
    /\ UNCHANGED <<sampling_vars, opencompass_vars, tokenizer_vars>>

\* lines 69-72: one more request completes, with a response
AwaitCompleted ==
    /\ cb_pc = "as_completed"
    /\ \E idx \in tasks :
           /\ response_list' =
                  StoreResponse(response_list,
                                call_openai(At(prompts, idx),
                                            eval_is_chat_model = "True", idx))
           /\ tasks' = tasks \ {idx}
           /\ arrival' = Append(arrival, idx)
    /\ UNCHANGED <<cb_pc, prompts, eval_is_chat_model>>
    /\ UNCHANGED <<sampling_vars, opencompass_vars, tokenizer_vars>>

\* line 70: the request that completes next raised, and so does the await
AwaitRaised ==
    /\ cb_pc = "as_completed"
    /\ \E idx \in tasks :
           /\ tasks' = tasks \ {idx}
           /\ arrival' = Append(arrival, idx)
    /\ cb_pc' = "RequestError"
    /\ UNCHANGED <<prompts, eval_is_chat_model, response_list>>
    /\ UNCHANGED <<sampling_vars, opencompass_vars, tokenizer_vars>>

\* lines 73-74
BatchedReturn ==
    /\ cb_pc = "as_completed"
    /\ tasks = {}
    /\ cb_pc' = "returned"
    /\ UNCHANGED <<prompts, eval_is_chat_model, tasks, arrival, response_list>>
    /\ UNCHANGED <<sampling_vars, opencompass_vars, tokenizer_vars>>

InitBatched ==
    /\ SamplingIdle /\ OpenCompassIdle /\ TokenizerIdle
    /\ cb_pc = "start"
    /\ prompts \in PromptLists
    /\ eval_is_chat_model \in {"True", "False", None}
    /\ tasks = {}
    /\ arrival = <<>>
    /\ response_list = <<>>

NextBatched ==
    \/ CallOpenaiBatched
    \/ AwaitCompleted
    \/ AwaitRaised
    \/ BatchedReturn

SpecBatched == InitBatched /\ [][NextBatched]_vars

\* the text the service produced for a query
ResponseTo(query) ==
    (IF eval_is_chat_model = "True" THEN "chat:" ELSE "text:") \o query

\* C27: while the requests complete, in whatever order, a slot of
\* response_list is None exactly while its request is outstanding and
\* otherwise holds the response to the prompt of the same position; the list
\* that is returned has the length of prompts, no None, and the response to
\* prompt k at position k.
C27_ResponsesInPromptOrder ==
    cb_pc \in {"as_completed", "returned"} =>
        /\ Len(response_list) = Len(prompts)
        /\ \A k \in 0..(Len(prompts) - 1) :
               IF k \in tasks
               THEN At(response_list, k) = None
               ELSE At(response_list, k) = ResponseTo(At(prompts, k))
        /\ cb_pc = "returned" => tasks = {}

\* three different-looking requests completed last-to-first, and the list
\* was returned
C27_Witness ==
    /\ cb_pc = "returned"
    /\ Len(prompts) >= 3
    /\ At(prompts, 0) /= At(prompts, 1)
    /\ At(arrival, 0) = Len(prompts) - 1
    /\ At(arrival, Len(prompts) - 1) = 0

(***************************************************************************)
(* get_model_type and eval_opencompass (eval.py, lines 176-253)            *)
(*                                                                         *)
(* An eval_url is [base, slashes]: the text base followed by that many     *)
(* '/'.  process is None before mp.Process, then "started", then "killed". *)
(* Each call of client.models.list() returns ("ok") or raises; what it     *)
(* does is the deploy service's choice.                                    *)
(***************************************************************************)
MaxTimeout == 2

EvalUrls == {NoUrl, [base |-> "http://h/v1", slashes |-> 0],
                    [base |-> "http://h/v1", slashes |-> 1]}

TemplateTypes == {"default", "default-generation"}

\* lines 213-214: is_generation_template(template_type)
is_generation_template(t) == t = "default-generation"

\* line 221: url.rstrip('/')
rstrip(url) == [url EXCEPT !.slashes = 0]

\* the text of a url
UrlText(url) == IF url.slashes = 0 THEN url.base ELSE url.base \o "/"

\* lines 211-218 and 229-244: the model entry of task_cfg after a local deploy
LocalTaskCfg(t) ==
    [openai_api_base |-> IF is_generation_template(t)
                         THEN "http://127.0.0.1:port/v1/completions"
                         ELSE "http://127.0.0.1:port/v1/chat/completions",
     is_chat |-> IF is_generation_template(t) THEN "False" ELSE "True"]

\* lines 220-227 and 229-244: the model entry of task_cfg for a given eval_url
RemoteTaskCfg(url, is_chat_model) ==
    [openai_api_base |-> UrlText(rstrip(url)) \o (IF is_chat_model = "True"
                                                  THEN "/chat/completions"
                                                  ELSE "/completions"),
     is_chat |-> is_chat_model]

\* ShouldRaise giving up one attempt earlier
ShouldRaiseAtTimeout(count, timeout) == count >= timeout

\* line 188
ShouldRaise(count, timeout) == count > timeout

\* lines 199-207, or 219-244 when an eval_url is given
EvalOpencompass ==
    /\ ev_pc = "start"
    /\ IF eval_url = NoUrl
       THEN /\ process' = "started"
            /\ ev_pc' = "get_model_type"
            /\ UNCHANGED task_cfg
       ELSE /\ task_cfg' = RemoteTaskCfg(eval_url, eval_is_chat_model)
            /\ ev_pc' = "run_task"
            /\ UNCHANGED process
    /\ cnt' = 0
    /\ UNCHANGED <<ev_outcome, eval_url, template_type, deploy_timeout,
                   attempt_log, slept>>
    /\ UNCHANGED <<sampling_vars, batched_vars, tokenizer_vars>>

\* lines 178-192: one pass of the loop of get_model_type up to its return,
\* raise or sleep; on return eval_opencompass goes on to line 244
GetModelTypeAttempt ==
    /\ ev_pc = "get_model_type"
    /\ \E result \in {"ok", "APIConnectionError", "OtherError"} :
           /\ attempt_log' = Append(attempt_log, result)
           /\ IF result = "ok"
              THEN /\ task_cfg' = LocalTaskCfg(template_type)
                   /\ ev_pc' = "run_task"
                   /\ UNCHANGED <<cnt, ev_outcome>>
              ELSE IF result = "APIConnectionError"
              THEN /\ cnt' = cnt + 1
                   /\ IF ShouldRaise(cnt', deploy_timeout)
                      THEN /\ ev_pc' = "exited"
                           /\ ev_outcome' = "APIConnectionError"
                      ELSE /\ ev_pc' = "sleep"
                           /\ UNCHANGED ev_outcome
                   /\ UNCHANGED task_cfg
              ELSE /\ ev_pc' = "exited"
                   /\ ev_outcome' = "OtherError"
                   /\ UNCHANGED <<cnt, task_cfg>>
    /\ UNCHANGED <<eval_url, template_type, deploy_timeout, process, slept>>
    /\ UNCHANGED <<sampling_vars, batched_vars, tokenizer_vars>>

\* line 192: time.sleep(1)
GetModelTypeSleep ==
    /\ ev_pc = "sleep"
    /\ slept' = slept + 1
    /\ ev_pc' = "get_model_type"
    /\ UNCHANGED <<ev_outcome, eval_url, template_type, deploy_timeout, process,
                   cnt, attempt_log, task_cfg>>
    /\ UNCHANGED <<sampling_vars, batched_vars, tokenizer_vars>>

\* lines 246-247: EvalDatasetContext and run_task return or raise
RunTask ==
    /\ ev_pc = "run_task"
    /\ \/ /\ ev_pc' = "summarize"
          /\ UNCHANGED ev_outcome
       \/ /\ ev_pc' = "exited"
          /\ ev_outcome' \in {"AssertionError", "TaskError"}
    /\ UNCHANGED <<eval_url, template_type, deploy_timeout, process, cnt,
                   attempt_log, slept, task_cfg>>
    /\ UNCHANGED <<sampling_vars, batched_vars, tokenizer_vars>>

\* line 249: Summarizer.get_report_from_cfg returns or raises
Summarize ==
    /\ ev_pc = "summarize"
    /\ \/ /\ ev_pc' = "report"
          /\ UNCHANGED ev_outcome
       \/ /\ ev_pc' = "exited"
          /\ ev_outcome' = "ReportError"
    /\ UNCHANGED <<eval_url, template_type, deploy_timeout, process, cnt,
                   attempt_log, slept, task_cfg>>
    /\ UNCHANGED <<sampling_vars, batched_vars, tokenizer_vars>>

\* lines 250-253
EvalReturn ==
    /\ ev_pc = "report"
    /\ process' = IF process /= None THEN "killed" ELSE process
    /\ ev_pc' = "exited"
    /\ ev_outcome' = "returned"
    /\ UNCHANGED <<eval_url, template_type, deploy_timeout, cnt, attempt_log,
                   slept, task_cfg>>
    /\ UNCHANGED <<sampling_vars, batched_vars, tokenizer_vars>>

InitEval ==
    /\ SamplingIdle /\ TokenizerIdle
    /\ cb_pc = "idle"
    /\ prompts = <<>>
    /\ eval_is_chat_model \in {"True", "False", None}
    /\ tasks = {}
    /\ arrival = <<>>
    /\ response_list = <<>>
    /\ ev_pc = "start"
    /\ ev_outcome = "none"
    /\ eval_url \in EvalUrls
    /\ template_type \in TemplateTypes
    /\ deploy_timeout \in 0..MaxTimeout
    /\ process = None
    /\ cnt = 0
    /\ attempt_log = <<>>
    /\ slept = 0
    /\ task_cfg = NoCfg

NextEval ==
    \/ EvalOpencompass
    \/ GetModelTypeAttempt
    \/ GetModelTypeSleep
    \/ RunTask
    \/ Summarize
    \/ EvalReturn

SpecEval == InitEval /\ [][NextEval]_vars

\* every step of the evaluation that can be taken is taken eventually
SpecEvalFair == SpecEval /\ WF_vars(NextEval)

\* C28: once eval_opencompass has exited, by return or by exception, a
\* deploy process that it started has been killed.
C28_DeployProcessKilled ==
    (ev_pc = "exited" /\ process /= None) => process = "killed"

\* get_model_type has returned or raised
GetModelTypeEnded == ev_pc \notin {"start", "get_model_type", "sleep"}

\* C29: the calls of client.models.list() made so far: none but the last
\* may have ended otherwise than with a connection error, and one second of
\* sleep lies between two consecutive calls.  When get_model_type has ended
\* after an error of the last call, it raised that error; a raised
\* connection error comes after exactly deploy_timeout + 1 calls.
C29_AttemptsAsStated ==
    /\ \A k \in 0..(Len(attempt_log) - 2) : At(attempt_log, k) = "APIConnectionError"
    /\ ev_pc = "get_model_type" => slept = Len(attempt_log)
    /\ ev_pc = "sleep" => /\ slept = Len(attempt_log) - 1
                          /\ At(attempt_log, Len(attempt_log) - 1) = "APIConnectionError"
    /\ (GetModelTypeEnded /\ attempt_log /= <<>>) =>
           LET last == At(attempt_log, Len(attempt_log) - 1)
           IN  /\ slept = Len(attempt_log) - 1
               /\ Len(attempt_log) <= deploy_timeout + 1
               /\ last /= "ok" => (ev_pc = "exited" /\ ev_outcome = last)
               /\ last = "APIConnectionError" => Len(attempt_log) = deploy_timeout + 1
               /\ last = "ok" => ev_outcome \notin {"APIConnectionError", "OtherError"}

\* C29: get_model_type always terminates, and its attempts are as stated in
\* C29_AttemptsAsStated.
C29_Terminates ==
    /\ []C29_AttemptsAsStated
    /\ (ev_pc = "get_model_type") ~> GetModelTypeEnded

\* the service stayed unreachable for a timeout of two seconds: three calls,
\* two sleeps, then the connection error
C29_Witness ==
    /\ ev_pc = "exited"
    /\ ev_outcome = "APIConnectionError"
    /\ deploy_timeout = 2
    /\ attempt_log = <<"APIConnectionError", "APIConnectionError", "APIConnectionError">>
    /\ slept = 2

(***************************************************************************)
(* get_model_tokenizer (model.py, lines 484-517), called by every rank of  *)
(* a job with a model_type of MODEL_MAPPING and no model_dir               *)
(*                                                                         *)
(* Ranks are 0..WorldSize-1, local_world_size of them on each node; the    *)
(* local master of a node is its rank with local rank 0.  dist.barrier()   *)
(* is a collective of all ranks: a rank leaves its k-th barrier call when  *)
(* every rank has made k calls.  Each node has its own snapshot cache.     *)
(***************************************************************************)
MaxRanks == 3

WorldSize == Len(rank_pc)

Ranks == 0..(WorldSize - 1)

NodeOf(r) == r \div local_world_size

\* is_local_master() of rank r (lines 502, 509)
is_local_master(r) == (~is_dist) \/ r % local_world_size = 0

LocalMasterOf(r) == NodeOf(r) * local_world_size

\* line 502
WaitsForLocalMaster(r) == is_dist /\ ~is_local_master(r)

\* line 509
ReleasesOthers(r) == is_dist /\ is_local_master(r)

\* lines 506-508: what snapshot_download does on the node of rank r
SnapshotCached(r) == At(cache, NodeOf(r))

\* lines 485-503: up to the barrier of the ranks that are not local master
GetModelTokenizer(r) ==
    /\ At(rank_pc, r) = "start"
    /\ IF WaitsForLocalMaster(r)
       THEN /\ barrier_entries' = [barrier_entries EXCEPT ![r + 1] = @ + 1]
            /\ rank_pc' = [rank_pc EXCEPT ![r + 1] = "barrier_503"]
       ELSE /\ rank_pc' = [rank_pc EXCEPT ![r + 1] = "resolve"]
            /\ UNCHANGED barrier_entries
    /\ UNCHANGED <<is_dist, local_world_size, path_exists, hub_reachable, cache,
                   model_dir>>
    /\ UNCHANGED <<sampling_vars, batched_vars, opencompass_vars>>

\* lines 503 and 510: dist.barrier() returns
BarrierReturns(r) ==
    /\ At(rank_pc, r) \in {"barrier_503", "barrier_510"}
    /\ \A q \in Ranks : At(barrier_entries, q) >= At(barrier_entries, r)
    /\ rank_pc' = [rank_pc EXCEPT ![r + 1] =
                       IF At(rank_pc, r) = "barrier_503" THEN "resolve" ELSE "load"]
    /\ UNCHANGED <<is_dist, local_world_size, barrier_entries, path_exists,
                   hub_reachable, cache, model_dir>>
    /\ UNCHANGED <<sampling_vars, batched_vars, opencompass_vars>>

\* lines 504-510: the model directory is resolved, downloaded when the path
\* does not exist, and the local master enters its barrier
ResolveModelDir(r) ==
    /\ At(rank_pc, r) = "resolve"
    /\ IF path_exists
       THEN /\ model_dir' = [model_dir EXCEPT ![r + 1] = "model_id"]
            /\ UNCHANGED cache
            /\ IF ReleasesOthers(r)
               THEN /\ barrier_entries' = [barrier_entries EXCEPT ![r + 1] = @ + 1]
                    /\ rank_pc' = [rank_pc EXCEPT ![r + 1] = "barrier_510"]
               ELSE /\ rank_pc' = [rank_pc EXCEPT ![r + 1] = "load"]
                    /\ UNCHANGED barrier_entries
       ELSE IF SnapshotCached(r) \/ hub_reachable
       THEN /\ model_dir' = [model_dir EXCEPT ![r + 1] = "cache/model_id"]
            /\ cache' = [cache EXCEPT ![NodeOf(r) + 1] = TRUE]
            /\ IF ReleasesOthers(r)
               THEN /\ barrier_entries' = [barrier_entries EXCEPT ![r + 1] = @ + 1]
                    /\ rank_pc' = [rank_pc EXCEPT ![r + 1] = "barrier_510"]
               ELSE /\ rank_pc' = [rank_pc EXCEPT ![r + 1] = "load"]
                    /\ UNCHANGED barrier_entries
       ELSE /\ rank_pc' = [rank_pc EXCEPT ![r + 1] = "DownloadError"]
            /\ UNCHANGED <<model_dir, cache, barrier_entries>>
    /\ UNCHANGED <<is_dist, local_world_size, path_exists, hub_reachable>>
    /\ UNCHANGED <<sampling_vars, batched_vars, opencompass_vars>>

\* lines 512-517
LoadModel(r) ==
    /\ At(rank_pc, r) = "load"
    /\ rank_pc' = [rank_pc EXCEPT ![r + 1] = "returned"]
    /\ UNCHANGED <<is_dist, local_world_size, barrier_entries, path_exists,
                   hub_reachable, cache, model_dir>>
    /\ UNCHANGED <<sampling_vars, batched_vars, opencompass_vars>>

RankStep(r) ==
    \/ GetModelTokenizer(r)
    \/ BarrierReturns(r)
    \/ ResolveModelDir(r)
    \/ LoadModel(r)

InitTokenizer ==
    /\ SamplingIdle /\ BatchedIdle /\ OpenCompassIdle
    /\ is_dist \in BOOLEAN
    /\ \E w \in 1..MaxRanks :
           /\ is_dist \/ w = 1
           /\ rank_pc = [r \in 1..w |-> "start"]
           /\ barrier_entries = [r \in 1..w |-> 0]
           /\ model_dir = [r \in 1..w |-> None]
           /\ local_world_size \in {n \in 1..w : w % n = 0}
           /\ cache = [n \in 1..(w \div local_world_size) |-> FALSE]
    /\ path_exists \in BOOLEAN
    /\ hub_reachable \in BOOLEAN

NextTokenizer ==
    \/ \E r \in Ranks : GetModelTokenizer(r)
    \/ \E r \in Ranks : BarrierReturns(r)
    \/ \E r \in Ranks : ResolveModelDir(r)
    \/ \E r \in Ranks : LoadModel(r)

\* every rank is a process of its own and keeps running
SpecTokenizer ==
    /\ InitTokenizer
    /\ [][NextTokenizer]_vars
    /\ \A r \in 0..(MaxRanks - 1) : WF_vars(r \in Ranks /\ RankStep(r))

\* rank r has the model directory resolved (line 510 reached or passed)
FinishedResolving(r) == At(rank_pc, r) \in {"barrier_510", "load", "returned"}

\* rank r is past its barrier and resolving or loading
PassedBarrier(r) ==
    At(rank_pc, r) \in {"resolve", "load", "returned", "DownloadError"}

\* no rank is on its way or waiting any more: each has returned or raised
BarrierCompleted ==
    \A r \in Ranks : At(rank_pc, r) \in {"returned", "DownloadError"}

\* a rank that is not local master is past the barrier only when the local
\* master of its node has the model directory resolved; no rank calls the
\* barrier twice, and a rank that returned called it once
MasterFirst ==
    is_dist =>
        \A r \in Ranks :
            /\ At(barrier_entries, r) <= 1
            /\ At(rank_pc, r) = "returned" => At(barrier_entries, r) = 1
            /\ (~is_local_master(r) /\ PassedBarrier(r)) =>
                   FinishedResolving(LocalMasterOf(r))

\* C30: under distributed execution no rank that is not local master passes
\* the barrier before the local master of its node has finished resolving
\* or downloading the model directory, every rank enters the barrier exactly
\* once, and the barrier completes: eventually no rank is blocked in it.
C30_BarrierCompletes ==
    /\ []MasterFirst
    /\ <>((~is_dist) \/ BarrierCompleted)

=============================================================================
